---- MODULE Spec2Model ----
(***************************************************************************)
(* State-machine model of the EDR-Proof CDR validation pipeline:           *)
(*   - the Redis job store        (tasks/job_manager.py)                   *)
(*   - the REST handlers          (app.py)                                 *)
(*   - the three Celery phases    (tasks/phase1_cdr.py, phase2_av.py,      *)
(*                                 phase3_edr.py)                          *)
(*   - the detonation VM pool     (tasks/vm_pool_manager.py)               *)
(* Every Redis command, broker publish and pool-lock section is one step.  *)
(***************************************************************************)
EXTENDS Integers, Sequences, FiniteSets, Bags, TLC

(***************************************************************************)
(* Bounds of the model.                                                    *)
(***************************************************************************)
\* number of blobs in the container / paths in a request
MaxFiles == 1
\* number of adapter or backend calls that may fail in one run
MaxFaults == 1
\* number of pool operations (provision, cleanup, delete, acquire in time) that
\* may fail in one run
MaxPoolFaults == 2
\* number of VMs whose provisioning may fail in initialize_pools
MaxProvisionFaults == 1
\* largest number of VMs provisioned per EDR label (config 'pool_size')
PoolSize == 2
\* uses after which a VM is recycled (config 'max_vm_uses')
MaxVmUses == 2
\* largest whole-second timestamp the clock reaches
MaxClock == 1
\* calls of release_vm a client of the pool makes on one acquired VM
MaxReleases == 2
\* calls of add_file_result per result list, and of increment_processed per job,
\* made by the clients of the Job Store on its own
MaxStoreOps == 1

(***************************************************************************)
(* Program constants.                                                      *)
(***************************************************************************)
JobIds == {"j1"}
\* the Celery worker processes: one in Spec, both in SpecPar
Workers == {"w1"}
ParWorkers == {"w1", "w2"}
\* the threads of the worker process that serves the phase3 queue: w2 alone in
\* SpecPool, both in SpecPoolPar
PoolWorkers == {"w2", "w3"}
AllWorkers == ParWorkers \cup PoolWorkers
ApiProc == "api"
ProcIds == AllWorkers \cup {ApiProc}

FileNames == <<"a.pdf", "b.docx", "c.xlsx">>
AllFiles == SubSeq(FileNames, 1, MaxFiles)

\* tasks/phase1_cdr.py: cdr_engines
CdrEngines == <<"glasswall", "opswat", "votiro">>
\* tasks/phase2_av.py: av_engines
AvEngines == <<"opswat", "reversinglabs">>
\* tasks/phase3_edr.py: edr_clients
EdrClients == <<"crowdstrike", "sentinelone", "sophos">>
\* tasks/vm_pool_manager.py: self.pools
Labels == {"crowdstrike", "sentinelone", "sophos"}

\* @celery_app.task(..., max_retries=3) of test_single_file_edr
max_retries == 3

\* tasks/phase3_edr.py imports only `datetime` from datetime, so the name
\* `timedelta` used in the get_alerts call is not bound in the module.
TimedeltaImported == FALSE

None == "None"
Terminal == {"completed", "failed", "cancelled"}
Statuses == {"pending", "running"} \cup Terminal

(***************************************************************************)
(* Redis hashes: a hash is a function from a set of field names; the key   *)
(* does not exist iff the hash is empty.                                   *)
(***************************************************************************)
EmptyHash == [f \in {} |-> 0]

HSet(h, m) ==
    [f \in (DOMAIN h) \cup (DOMAIN m) |-> IF f \in DOMAIN m THEN m[f] ELSE h[f]]

\* an increment that writes n over the field instead of adding to it
HOverwrite(h, f, n) == HSet(h, f :> n)

HIncrBy(h, f, n) ==
    HSet(h, f :> ((IF f \in DOMAIN h THEN h[f] ELSE 0) + n))

RECURSIVE GCD(_, _)
GCD(a, b) == IF b = 0 THEN a ELSE GCD(b, a % b)

\* (processed_files / total_files) * 100 as an exact fraction <<num, den>>
Progress(processed, total) ==
    LET g == GCD(100 * processed, total)
    IN  <<(100 * processed) \div g, total \div g>>

ZeroProgress == <<0, 1>>

\* JobManager.create_job: the mapping stored by hset
NewJobData(job_id, phases) ==
    [ job_id |-> job_id,
      phases |-> phases,
      status |-> "pending",
      total_files |-> 0,
      processed_files |-> 0,
      failed_files |-> 0,
      current_phase |-> 0,        \* None
      progress_percentage |-> ZeroProgress ]

\* the Redis key job:<id> (n = 0) or job:<id>:phase<n>
Key(j, n) == <<j, n>>

\* redis expire(key, 604800): the key is removed 7 days after the call
Expire(t, k) == [t EXCEPT !.keys = @ \cup {k}]

\* JobManager.get_job: None for a missing key, else the hash
JobFound(h) == DOMAIN h # {}


(***************************************************************************)
(* State.                                                                  *)
(***************************************************************************)
VARIABLES
    jobs,       \* Redis: job:<id> hashes
    results,    \* Redis: job:<id>:phase<n> lists
    jobs_list,  \* Redis: jobs:list
    issued,     \* job ids handed out by uuid.uuid4()
    queue,      \* broker: published task messages, in order
    chords,     \* result backend: per job and phase, the chord header and its part returns
    procs,      \* the API thread and the Celery worker(s): position and locals
    pools,      \* VMPoolManager.pools: per label, the queue of VMInfo objects (by name)
    vm_info,    \* the VMInfo objects: name -> fields
    all_vms,    \* VMPoolManager.all_vms: tracked names
    vm_lock,    \* VMPoolManager.vm_lock: its holder, or None
    cleaners,   \* running _clean_and_return_vm / _recycle_vm calls: a bag of frames
    backend,    \* Azure: names of the VMs that exist
    pool_ready, \* initialize_pools has run
    pools_shut, \* shutdown_pools has run
    config,     \* VMPoolManager.pool_size_per_edr and .max_vm_uses
    clock,      \* int(time.time()) at its last reading
    faults,     \* adapter/backend failures so far
    cb_calls,   \* history: per phase, the result lists the completion callback was invoked with
    blobs,      \* Azure Blob Storage, container test-files: the blob paths uploaded by Phase 1
    ttl         \* Redis: the keys with a time to live, and the jobs whose 7 days have passed

store_vars == <<jobs, results, jobs_list, issued>>
celery_vars == <<queue, chords>>
pool_vars == <<pools, vm_info, all_vms, vm_lock, cleaners, backend, pool_ready, pools_shut,
              config, clock>>
vars == <<jobs, results, jobs_list, issued, queue, chords, procs,
          pools, vm_info, all_vms, vm_lock, cleaners, backend, pool_ready, pools_shut,
          config, clock, faults, cb_calls, blobs, ttl>>

\* the pool's configuration is read at construction and first used by
\* initialize_pools, where its values are drawn
NoConfig == [pool_size |-> 0, max_vm_uses |-> 0]
NoTask == [name |-> "none"]
NoLoc == [none |-> TRUE]
NoChord == [tasks |-> <<>>, res |-> EmptyHash, made |-> FALSE]
\* no key has a time to live
NoTtl == [keys |-> {}, due |-> {}]

IdleProc == [pc |-> "idle", task |-> NoTask, ret |-> "idle", loc |-> NoLoc, tmp |-> ZeroProgress]

Init ==
    /\ jobs = [j \in JobIds |-> EmptyHash]
    /\ results = [j \in JobIds |-> [n \in 1..3 |-> <<>>]]
    /\ jobs_list = <<>>
    /\ issued = {}
    /\ queue = <<>>
    /\ chords = [j \in JobIds |-> [n \in 1..3 |-> NoChord]]
    /\ procs = [p \in ProcIds |-> IdleProc]
    /\ pools = [l \in Labels |-> <<>>]
    /\ vm_info = EmptyHash
    /\ all_vms = {}
    /\ vm_lock = None
    /\ cleaners = EmptyBag
    /\ backend = {}
    /\ pool_ready = FALSE
    /\ pools_shut = FALSE
    /\ config = NoConfig
    /\ clock = 0
    /\ faults = 0
    /\ cb_calls = [n \in 1..3 |-> <<>>]
    /\ blobs = {}
    /\ ttl = NoTtl

(***************************************************************************)
(* Helpers on process records.                                             *)
(***************************************************************************)
At(p, pc) == procs[p].pc = pc
Jid(p) == procs[p].task.job_id

\* continue at pc; "idle" ends the task (or the request)
Resume(pr, pc) == IF pc = "idle" THEN IdleProc ELSE [pr EXCEPT !.pc = pc]
Goto(p, pc) == procs' = [procs EXCEPT ![p] = Resume(@, pc)]

\* JobManager.update_job, first command: hset of the (serialized) updates;
\* the progress refresh of lines 124-127 follows as ProgressRead/ProgressWrite.
UpdateJob(p, j, m, ret) ==
    /\ jobs' = [jobs EXCEPT ![j] = HSet(@, m)]
    /\ procs' = [procs EXCEPT ![p].pc = "progress_read", ![p].ret = ret]

\* job = self.get_job(job_id); if job and job['total_files'] > 0: progress = ...
ProgressRead(p) ==
    /\ At(p, "progress_read")
    /\ LET job == jobs[Jid(p)]
       IN  IF JobFound(job) /\ job.total_files > 0
           THEN procs' = [procs EXCEPT
                    ![p].pc = "progress_write",
                    ![p].tmp = Progress(job.processed_files, job.total_files)]
           ELSE Goto(p, procs[p].ret)
    /\ UNCHANGED <<store_vars, celery_vars, pool_vars, faults, cb_calls, blobs, ttl>>

\* self.redis_client.hset(f"job:{job_id}", 'progress_percentage', progress)
ProgressWrite(p) ==
    /\ At(p, "progress_write")
    /\ jobs' = [jobs EXCEPT ![Jid(p)] =
                    HSet(@, [progress_percentage |-> procs[p].tmp])]
    /\ Goto(p, procs[p].ret)
    /\ UNCHANGED <<results, jobs_list, issued, celery_vars, pool_vars, faults, cb_calls, blobs, ttl>>

(***************************************************************************)
(* Celery: broker queue and chords.                                        *)
(***************************************************************************)
\* header task k has returned
Settled(ch, k) == k \in DOMAIN ch.res

\* every header task of the chord has returned
ChordComplete(ch) == ch.made /\ DOMAIN ch.res = 1..Len(ch.tasks)

\* a join that does not wait for the last header task
ChordReadyOneShort(tasks, res) == Cardinality(DOMAIN res) >= Len(tasks) - 1

\* a join that drops the body when a header task ended in an error
ChordReadyNoError(tasks, res) ==
    DOMAIN res = 1..Len(tasks) /\ \A k \in DOMAIN res : res[k].status # "error"

\* the join condition of a chord: a result is in for every header task
ChordReady(tasks, res) == DOMAIN res = 1..Len(tasks)

CallbackName(n) ==
    CASE n = 1 -> "on_cdr_batch_complete"
      [] n = 2 -> "on_av_batch_complete"
      [] n = 3 -> "on_edr_batch_complete"

\* the header's results, in header order
RECURSIVE Joined(_, _, _)
Joined(res, k, n) ==
    IF k > n THEN <<>>
    ELSE (IF k \in DOMAIN res THEN <<res[k]>> ELSE <<>>) \o Joined(res, k + 1, n)

\* the callback signature applied to the header's results
CallbackMsg(j, n, tasks, res) ==
    [name |-> CallbackName(n), job_id |-> j, results |-> Joined(res, 1, Len(tasks))]

\* a chord whose body waits for a header task even when the header is empty
ChordApplyHeaderOnly(j, n, tasks) ==
    /\ chords' = [chords EXCEPT ![j][n] = [tasks |-> tasks, res |-> EmptyHash, made |-> TRUE]]
    /\ queue' = queue \o tasks

\* chord(tasks)(callback): publish the header; an empty header runs the body at once
ChordApply(j, n, tasks) ==
    /\ chords' = [chords EXCEPT ![j][n] = [tasks |-> tasks, res |-> EmptyHash, made |-> TRUE]]
    /\ queue' = IF ChordReady(tasks, EmptyHash)
                THEN Append(queue, CallbackMsg(j, n, tasks, EmptyHash))
                ELSE queue \o tasks

\* a header task returns `result`: record the part; the last part publishes the body
ChordPartReturn(j, n, k, result) ==
    LET ch == chords[j][n]
        res == HSet(ch.res, k :> result)
    IN  /\ chords' = [chords EXCEPT ![j][n].res = res]
        /\ queue' = IF ChordReady(ch.tasks, res) /\ ~ChordReady(ch.tasks, ch.res)
                    THEN Append(queue, CallbackMsg(j, n, ch.tasks, res))
                    ELSE queue

EntryPc(name) ==
    CASE name = "process_cdr_batch" -> "cdr_start"
      [] name = "process_single_file_cdr" -> "u1_work"
      [] name = "on_cdr_batch_complete" -> "cb1_start"
      [] name = "scan_av_batch" -> "av_start"
      [] name = "scan_single_file_av" -> "u2_work"
      [] name = "on_av_batch_complete" -> "cb2_start"
      [] name = "test_edr_batch" -> "edr_start"
      [] name = "test_single_file_edr" -> "u3_acquire"
      [] name = "on_edr_batch_complete" -> "cb3_start"

\* an idle worker takes the next message off the broker
TakeTask(w) ==
    /\ At(w, "idle")
    /\ queue # <<>>
    /\ procs' = [procs EXCEPT ![w] =
                    [IdleProc EXCEPT !.pc = EntryPc(Head(queue).name),
                                     !.task = Head(queue)]]
    /\ queue' = Tail(queue)
    /\ UNCHANGED <<store_vars, chords, pool_vars, faults, cb_calls, blobs, ttl>>

\* task_routes: the queue a task name is routed to
Route(name) ==
    CASE name \in {"process_cdr_batch", "process_single_file_cdr",
                   "on_cdr_batch_complete"} -> "phase1"
      [] name \in {"scan_av_batch", "scan_single_file_av", "on_av_batch_complete"} -> "phase2"
      [] name \in {"test_edr_batch", "test_single_file_edr",
                   "on_edr_batch_complete"} -> "phase3"

\* the position in the broker of the next message of the queues `routes`, or 0
NextRouted(routes) ==
    LET ks == {k \in 1..Len(queue) : Route(queue[k].name) \in routes}
    IN  IF ks = {} THEN 0 ELSE CHOOSE k \in ks : \A i \in ks : k <= i

\* an idle worker that serves the queues `routes` takes their next message
TakeRouted(w, routes) ==
    /\ At(w, "idle")
    /\ NextRouted(routes) # 0
    /\ LET k == NextRouted(routes)
       IN  /\ procs' = [procs EXCEPT ![w] =
                            [IdleProc EXCEPT !.pc = EntryPc(queue[k].name),
                                             !.task = queue[k]]]
           /\ queue' = SubSeq(queue, 1, k - 1) \o SubSeq(queue, k + 1, Len(queue))
    /\ UNCHANGED <<store_vars, chords, pool_vars, faults, cb_calls, blobs, ttl>>

(***************************************************************************)
(* app.py: REST handlers.                                                  *)
(***************************************************************************)
\* BatchJobRequest.file_paths: None (absent), an empty list, or the files
NoPaths == [is_none |-> TRUE, paths |-> <<>>]
FilePathsInputs == {NoPaths, [is_none |-> FALSE, paths |-> <<>>],
                    [is_none |-> FALSE, paths |-> AllFiles]}

\* POST /api/jobs/batch: create_job (hset, lpush, expire), then Phase 1 if enabled
CreateBatchJob ==
    /\ At(ApiProc, "idle")
    /\ \E j \in JobIds \ issued, phases \in SUBSET {1, 2, 3}, file_paths \in FilePathsInputs :
        /\ issued' = issued \cup {j}
        /\ jobs' = [jobs EXCEPT ![j] = HSet(@, NewJobData(j, phases))]
        /\ jobs_list' = <<j>> \o jobs_list
        /\ ttl' = Expire(ttl, Key(j, 0))
        /\ queue' = IF 1 \in phases
                    THEN Append(queue, [name |-> "process_cdr_batch", job_id |-> j,
                                        file_paths |-> file_paths])
                    ELSE queue
    /\ UNCHANGED <<results, chords, procs, pool_vars, faults, cb_calls, blobs>>

\* cancel_job: if not job: return False; if job['status'] in [...]: return False
Cancellable(job) == JobFound(job) /\ job.status \notin Terminal

\* what cancel_job's get_job returned, as far as cancel_job looks at it
Seen(job) == IF JobFound(job) THEN job.status ELSE "missing"

\* DELETE /api/jobs/{id} -> JobManager.cancel_job: job = self.get_job(job_id)
\* and the two tests on it
CancelRead ==
    /\ At(ApiProc, "idle")
    /\ \E j \in JobIds :
        procs' = [procs EXCEPT ![ApiProc] =
                    [IdleProc EXCEPT !.pc = IF Cancellable(jobs[j])
                                            THEN "cancel_write" ELSE "cancel_false",
                                     !.task = [name |-> "cancel_job", job_id |-> j],
                                     !.loc = [seen |-> Seen(jobs[j])]]]
    /\ UNCHANGED <<store_vars, celery_vars, pool_vars, faults, cb_calls, blobs, ttl>>

\* self.update_job(job_id, {'status': 'cancelled', 'cancelled_at': ...})
CancelWrite ==
    /\ At(ApiProc, "cancel_write")
    /\ UpdateJob(ApiProc, Jid(ApiProc), [status |-> "cancelled"], "cancel_true")
    /\ UNCHANGED <<results, jobs_list, issued, celery_vars, pool_vars, faults, cb_calls, blobs, ttl>>

\* return True / return False: the handler answers 200 or 404
CancelReturn ==
    /\ At(ApiProc, "cancel_true") \/ At(ApiProc, "cancel_false")
    /\ Goto(ApiProc, "idle")
    /\ UNCHANGED <<store_vars, celery_vars, pool_vars, faults, cb_calls, blobs, ttl>>

(***************************************************************************)
(* tasks/phase1_cdr.py                                                     *)
(***************************************************************************)
\* a fan-out that uses the first CDR engine only
CdrTasksOneEngine(j, file_paths) ==
    [k \in 1..Len(file_paths) |->
        [name |-> "process_single_file_cdr", job_id |-> j, idx |-> k,
         file_path |-> file_paths[k], engine_name |-> CdrEngines[1]]]

\* one signature per file x CDR engine, files outermost
CdrTasks(j, file_paths) ==
    [k \in 1..(Len(file_paths) * Len(CdrEngines)) |->
        [name |-> "process_single_file_cdr", job_id |-> j, idx |-> k,
         file_path |-> file_paths[((k - 1) \div Len(CdrEngines)) + 1],
         engine_name |-> CdrEngines[((k - 1) % Len(CdrEngines)) + 1]]]

\* process_cdr_batch: update_job(status running, current_phase 1, started_at)
CdrBatchStart(w) ==
    /\ At(w, "cdr_start")
    /\ UpdateJob(w, Jid(w), [status |-> "running", current_phase |-> 1], "cdr_list")
    /\ UNCHANGED <<results, jobs_list, issued, celery_vars, pool_vars, faults, cb_calls, blobs, ttl>>

\* file_paths = blob_manager.list_files(...) when None; update_job(total_files).
\* `container` is what the container holds at this moment, read only for None.
CdrBatchList(w) ==
    /\ At(w, "cdr_list")
    /\ LET fp == procs[w].task.file_paths
       IN  \E listing \in {<<>>, AllFiles} :
            LET paths == IF fp.is_none THEN listing ELSE fp.paths
            IN  /\ jobs' = [jobs EXCEPT ![Jid(w)] = HSet(@, [total_files |-> Len(paths)])]
                /\ procs' = [procs EXCEPT ![w].pc = "progress_read",
                                          ![w].ret = "cdr_chord",
                                          ![w].loc = [file_paths |-> paths,
                                                      container |-> listing]]
    /\ UNCHANGED <<results, jobs_list, issued, celery_vars, pool_vars, faults, cb_calls, blobs, ttl>>

\* blob_manager.list_files raises: except -> update_job(status failed, error); raise
CdrBatchListFails(w) ==
    /\ At(w, "cdr_list")
    /\ procs[w].task.file_paths.is_none
    /\ faults < MaxFaults
    /\ faults' = faults + 1
    /\ UpdateJob(w, Jid(w), [status |-> "failed", error |-> "list_files"], "idle")
    /\ UNCHANGED <<results, jobs_list, issued, celery_vars, pool_vars, cb_calls, blobs, ttl>>

\* workflow = chord(tasks)(on_cdr_batch_complete.s(job_id=job_id))
CdrBatchChord(w) ==
    /\ At(w, "cdr_chord")
    /\ ChordApply(Jid(w), 1, CdrTasks(Jid(w), procs[w].loc.file_paths))
    /\ Goto(w, "idle")
    /\ UNCHANGED <<store_vars, pool_vars, faults, cb_calls, blobs, ttl>>

\* process_single_file_cdr: download, sanitize_file, upload_file
CdrResult(t, status) ==
    [file_path |-> t.file_path, engine_name |-> t.engine_name, status |-> status,
     sanitized_blob_path |-> IF status = "success"
                             THEN <<"post-cdr", t.engine_name, t.file_path>>
                             ELSE <<"", "", "">>]

\* a unit whose sanitized artifact is never uploaded
UploadSkipped(bs, t, status) == bs

\* blob_manager.upload_file(sanitized_path, "test-files", post-cdr/<engine>/<file>):
\* called, and returned, in the success branch only, before the result is built
UploadFile(bs, t, status) ==
    IF status = "success"
    THEN bs \cup {<<"post-cdr", t.engine_name, t.file_path>>}
    ELSE bs

\* the unit's try block ends with `status`
CdrUnitOutcome(w, status) ==
    /\ At(w, "u1_work")
    /\ blobs' = UploadFile(blobs, procs[w].task, status)
    /\ procs' = [procs EXCEPT ![w].pc = "u1_store",
                              ![w].loc = CdrResult(procs[w].task, status)]
    /\ UNCHANGED <<store_vars, celery_vars, pool_vars, cb_calls, ttl>>

CdrUnitWork(w) ==
    \E status \in {"success", "failed", "error"} :
        /\ status # "success" => faults < MaxFaults
        /\ faults' = IF status = "success" THEN faults ELSE faults + 1
        /\ CdrUnitOutcome(w, status)

\* JobManager.add_file_result: rpush job:<id>:<phase>
AddFileResult(j, n, result) ==
    results' = [results EXCEPT ![j][n] = Append(@, result)]

\* job_manager.add_file_result(job_id, 'phase1', result), on both paths
CdrUnitStore(w) ==
    /\ At(w, "u1_store")
    /\ AddFileResult(Jid(w), 1, procs[w].loc)
    /\ Goto(w, IF procs[w].loc.status = "error" THEN "incr_failed" ELSE "incr_processed")
    /\ UNCHANGED <<jobs, jobs_list, issued, celery_vars, pool_vars, faults, cb_calls, blobs, ttl>>

\* JobManager.increment_failed: hincrby failed_files, then increment_processed
IncrementFailed(w) ==
    /\ At(w, "incr_failed")
    /\ jobs' = [jobs EXCEPT ![Jid(w)] = HIncrBy(@, "failed_files", 1)]
    /\ Goto(w, "incr_processed")
    /\ UNCHANGED <<results, jobs_list, issued, celery_vars, pool_vars, faults, cb_calls, blobs, ttl>>

\* JobManager.increment_processed: hincrby processed_files, then the progress refresh
IncrementProcessed(w) ==
    /\ At(w, "incr_processed")
    /\ jobs' = [jobs EXCEPT ![Jid(w)] = HIncrBy(@, "processed_files", 1)]
    /\ procs' = [procs EXCEPT ![w].pc = "progress_read", ![w].ret = "unit_return"]
    /\ UNCHANGED <<results, jobs_list, issued, celery_vars, pool_vars, faults, cb_calls, blobs, ttl>>

PhaseOf(name) ==
    CASE name \in {"process_single_file_cdr", "on_cdr_batch_complete"} -> 1
      [] name \in {"scan_single_file_av", "on_av_batch_complete"} -> 2
      [] name \in {"test_single_file_edr", "on_edr_batch_complete"} -> 3

\* the value a unit task returns
ReturnValue(pr) ==
    IF pr.task.name = "test_single_file_edr" THEN pr.loc.result ELSE pr.loc

\* return result: the unit's return value is its part of the chord
UnitReturn(w) ==
    /\ At(w, "unit_return")
    /\ ChordPartReturn(Jid(w), PhaseOf(procs[w].task.name), procs[w].task.idx,
                       ReturnValue(procs[w]))
    /\ Goto(w, "idle")
    /\ UNCHANGED <<store_vars, pool_vars, faults, cb_calls, blobs, ttl>>

UnitNames == {"process_single_file_cdr", "scan_single_file_av", "test_single_file_edr"}

\* m is a unit task of phase n of job j
IsUnitOf(m, j, n) == m.name \in UnitNames /\ PhaseOf(m.name) = n /\ m.job_id = j

\* a unit of phase n of job j is published and not yet run, or is running
InFlight(j, n) ==
    \/ \E k \in 1..Len(queue) : IsUnitOf(queue[k], j, n)
    \/ \E p \in AllWorkers : IsUnitOf(procs[p].task, j, n)

\* history: what a completion callback was invoked with, and whether a unit of
\* its phase was still in flight then
CallRecord(w, n) ==
    [job_id |-> Jid(w), results |-> procs[w].task.results, in_flight |-> InFlight(Jid(w), n)]

\* sum(1 for r in results if r.get('status') ...)
Successful == {"success"}
Failed == {"failed", "error"}
Count(seq, statuses) == Cardinality({k \in 1..Len(seq) : seq[k].status \in statuses})

\* on_cdr_batch_complete: update_job(phase1_completed, phase1_summary)
CdrCallbackStart(w) ==
    /\ At(w, "cb1_start")
    /\ LET rs == procs[w].task.results
       IN  UpdateJob(w, Jid(w),
                [phase1_completed |-> TRUE,
                 phase1_summary |-> [total_tasks |-> Len(rs),
                                     successful |-> Count(rs, Successful),
                                     failed |-> Count(rs, Failed)]],
                "cb1_next")
    /\ cb_calls' = [cb_calls EXCEPT ![1] = Append(@, CallRecord(w, 1))]
    /\ UNCHANGED <<results, jobs_list, issued, celery_vars, pool_vars, faults, blobs, ttl>>

\* job = get_job(job_id); if job and 2 in phases: scan_av_batch.apply_async
\* else: update_job(status completed, completed_at)
CdrCallbackNext(w) ==
    /\ At(w, "cb1_next")
    /\ LET job == jobs[Jid(w)]
       IN  IF JobFound(job) /\ 2 \in job.phases
           THEN /\ queue' = Append(queue, [name |-> "scan_av_batch", job_id |-> Jid(w)])
                /\ Goto(w, "idle")
                /\ UNCHANGED jobs
           ELSE /\ UpdateJob(w, Jid(w), [status |-> "completed"], "idle")
                /\ UNCHANGED queue
    /\ UNCHANGED <<results, jobs_list, issued, chords, pool_vars, faults, cb_calls, blobs, ttl>>

(***************************************************************************)
(* Input planning of Phases 2 and 3 (scan_av_batch / test_edr_batch).      *)
(***************************************************************************)
\* original_files: the file_path of every Phase-1 success result (a Python set)
OriginalFiles(rs) == {rs[k].file_path : k \in {i \in 1..Len(rs) : rs[i].status = "success"}}

\* the orders in which iterating the set may yield its elements
Orders(S) == {s \in [1..Cardinality(S) -> S] : \A a, b \in DOMAIN s : s[a] = s[b] => a = b}

PreCdr(f) ==
    [file_path |-> <<"", "", f>>, version |-> "pre-cdr", cdr_engine |-> None,
     original_file |-> None]

PostCdr(r) ==
    [file_path |-> r.sanitized_blob_path, version |-> "post-cdr",
     cdr_engine |-> r.engine_name, original_file |-> r.file_path]

\* post-CDR entries for every result of file f, whatever its status
RECURSIVE PostEntriesAnyStatus(_, _)
PostEntriesAnyStatus(rs, f) ==
    IF rs = <<>> THEN <<>>
    ELSE (IF Head(rs).file_path = f THEN <<PostCdr(Head(rs))>> ELSE <<>>)
         \o PostEntriesAnyStatus(Tail(rs), f)

\* the post-CDR entries of file f: one per success result of f, in list order
RECURSIVE PostEntries(_, _)
PostEntries(rs, f) ==
    IF rs = <<>> THEN <<>>
    ELSE (IF Head(rs).file_path = f /\ Head(rs).status = "success"
          THEN <<PostCdr(Head(rs))>> ELSE <<>>) \o PostEntries(Tail(rs), f)

\* files_to_scan / files_to_test: per original file, pre-CDR then its post-CDR versions
RECURSIVE FilesPlan(_, _)
FilesPlan(rs, ord) ==
    IF ord = <<>> THEN <<>>
    ELSE <<PreCdr(Head(ord))>> \o PostEntries(rs, Head(ord)) \o FilesPlan(rs, Tail(ord))

\* one signature per planned file x engine, planned files outermost
FanOut(name, j, plan, engines) ==
    [k \in 1..(Len(plan) * Len(engines)) |->
        [name |-> name, job_id |-> j, idx |-> k, retries |-> 0,
         file_info |-> plan[((k - 1) \div Len(engines)) + 1],
         engine |-> engines[((k - 1) % Len(engines)) + 1]]]

\* a batch task's plan and chord: job = get_job(); container_name = job.get(...);
\* phase1_results = get_phase_results(); tasks; chord(tasks)(callback).
\* A missing job makes job.get raise: except -> update_job(status failed); raise
PlanAndChord(w, n, name, engines) ==
    LET j == Jid(w)
    IN  IF JobFound(jobs[j])
        THEN /\ \E ord \in Orders(OriginalFiles(results[j][1])) :
                    ChordApply(j, n, FanOut(name, j, FilesPlan(results[j][1], ord), engines))
             /\ Goto(w, "idle")
             /\ UNCHANGED jobs
        ELSE /\ UpdateJob(w, j, [status |-> "failed", error |-> "job.get"], "idle")
             /\ UNCHANGED celery_vars

(***************************************************************************)
(* tasks/phase2_av.py                                                      *)
(***************************************************************************)
\* scan_av_batch: update_job(current_phase 2, phase2_started_at)
AvBatchStart(w) ==
    /\ At(w, "av_start")
    /\ UpdateJob(w, Jid(w), [current_phase |-> 2], "av_plan")
    /\ UNCHANGED <<results, jobs_list, issued, celery_vars, pool_vars, faults, cb_calls, blobs, ttl>>

AvBatchPlan(w) ==
    /\ At(w, "av_plan")
    /\ PlanAndChord(w, 2, "scan_single_file_av", AvEngines)
    /\ UNCHANGED <<results, jobs_list, issued, pool_vars, faults, cb_calls, blobs, ttl>>

UnitResult(t, status) ==
    [file_path |-> t.file_info.file_path, version |-> t.file_info.version,
     cdr_engine |-> t.file_info.cdr_engine, engine |-> t.engine, status |-> status]

\* scan_single_file_av: download_file, scan_file
AvUnitWork(w) ==
    /\ At(w, "u2_work")
    /\ \E status \in {"success", "error"} :
        /\ status # "success" => faults < MaxFaults
        /\ faults' = IF status = "success" THEN faults ELSE faults + 1
        /\ procs' = [procs EXCEPT ![w].pc = "u2_store",
                                  ![w].loc = UnitResult(procs[w].task, status)]
    /\ UNCHANGED <<store_vars, celery_vars, pool_vars, cb_calls, blobs, ttl>>

\* job_manager.add_file_result(job_id, 'phase2', result), on both paths
AvUnitStore(w) ==
    /\ At(w, "u2_store")
    /\ AddFileResult(Jid(w), 2, procs[w].loc)
    /\ Goto(w, "unit_return")
    /\ UNCHANGED <<jobs, jobs_list, issued, celery_vars, pool_vars, faults, cb_calls, blobs, ttl>>

\* on_av_batch_complete: update_job(phase2_completed, phase2_summary)
AvCallbackStart(w) ==
    /\ At(w, "cb2_start")
    /\ LET rs == procs[w].task.results
       IN  UpdateJob(w, Jid(w),
                [phase2_completed |-> TRUE,
                 phase2_summary |-> [total_scans |-> Len(rs),
                                     successful |-> Count(rs, Successful)]],
                "cb2_next")
    /\ cb_calls' = [cb_calls EXCEPT ![2] = Append(@, CallRecord(w, 2))]
    /\ UNCHANGED <<results, jobs_list, issued, celery_vars, pool_vars, faults, blobs, ttl>>

\* job = get_job(job_id); if job and 3 in phases: test_edr_batch.apply_async
\* else: update_job(status completed, completed_at)
AvCallbackNext(w) ==
    /\ At(w, "cb2_next")
    /\ LET job == jobs[Jid(w)]
       IN  IF JobFound(job) /\ 3 \in job.phases
           THEN /\ queue' = Append(queue, [name |-> "test_edr_batch", job_id |-> Jid(w)])
                /\ Goto(w, "idle")
                /\ UNCHANGED jobs
           ELSE /\ UpdateJob(w, Jid(w), [status |-> "completed"], "idle")
                /\ UNCHANGED queue
    /\ UNCHANGED <<results, jobs_list, issued, chords, pool_vars, faults, cb_calls, blobs, ttl>>

(***************************************************************************)
(* tasks/vm_pool_manager.py                                                *)
(***************************************************************************)
NoName == <<"", -1, -1>>

\* int(time.time()): not before the last reading
ClockReads == {t \in clock..(clock + 1) : t <= MaxClock}

\* f"edr-test-{edr_solution}-{i:02d}-{int(time.time())}"
PoolVmName(l, i, t) == <<l, i, t>>
\* f"edr-test-{vm_info.edr_solution}-{int(time.time())}"
RecycledVmName(l, t) == <<l, -1, t>>

\* _provision_vm's return value: VMInfo(status='available', use_count=0)
NewVmInfo(l) == [edr_solution |-> l, status |-> "available", use_count |-> 0]

\* a _provision_pool that gives up at the first slot whose provisioning raised
RECURSIVE ProvisionedUntilFailure(_, _, _, _, _)
ProvisionedUntilFailure(l, i, size, t, failed) ==
    IF i >= size \/ <<l, i>> \in failed THEN <<>>
    ELSE <<PoolVmName(l, i, t)>> \o ProvisionedUntilFailure(l, i + 1, size, t, failed)

\* the queue _provision_pool fills for label l: slots 0..pool_size-1 in order,
\* without those whose provisioning raised
RECURSIVE ProvisionedFrom(_, _, _, _, _)
ProvisionedFrom(l, i, size, t, failed) ==
    IF i >= size THEN <<>>
    ELSE (IF <<l, i>> \in failed THEN <<>> ELSE <<PoolVmName(l, i, t)>>)
         \o ProvisionedFrom(l, i + 1, size, t, failed)

Range(s) == {s[k] : k \in DOMAIN s}

\* initialize_pools: one _provision_pool thread per label, joined; every label
\* gets pool_size_per_edr slots, and a slot whose provisioning raised is skipped.
\* The startup reading of the clock is its origin.
InitializePools ==
    /\ ~pool_ready
    /\ issued = {}
    /\ \E size \in 1..PoolSize, uses \in 1..MaxVmUses,
          failed \in SUBSET (Labels \X (0..(PoolSize - 1))) :
        /\ \A x \in failed : x[2] < size
        /\ Cardinality(failed) <= MaxProvisionFaults
        /\ faults' = faults + Cardinality(failed)
        /\ config' = [pool_size |-> size, max_vm_uses |-> uses]
        /\ pools' = [l \in Labels |-> ProvisionedFrom(l, 0, size, clock, failed)]
        /\ LET made == UNION {Range(ProvisionedFrom(l, 0, size, clock, failed)) : l \in Labels}
           IN  /\ all_vms' = all_vms \cup made
               /\ backend' = backend \cup made
               /\ vm_info' = [n \in made |-> NewVmInfo(n[1])] @@ vm_info
    /\ pool_ready' = TRUE
    /\ UNCHANGED <<store_vars, celery_vars, procs, vm_lock, cleaners, pools_shut, clock,
                   cb_calls, blobs, ttl>>

\* a frame of the pool's own code: _clean_and_return_vm or _recycle_vm on VMInfo `vm`;
\* caller is the worker blocked in release_vm on it (holding vm_lock), or None for a thread
Frame(vm, pc, caller, new) == [vm |-> vm, pc |-> pc, caller |-> caller, new |-> new]

Replace(f, g) == (cleaners (-) SetToBag({f})) (+) SetToBag({g})
Drop(f) == cleaners (-) SetToBag({f})

\* a unit whose retried attempts return their part of the chord as well
AfterReleaseAlways(pr) == "unit_return"

\* where a unit continues after its finally block
AfterRelease(pr) == IF pr.loc.retry THEN "idle" ELSE "unit_return"

\* _clean_and_return_vm: the cleanup script raises: except -> self._recycle_vm(vm_info)
CleanupFails(f) ==
    /\ f.pc = "clean"
    /\ faults < MaxPoolFaults
    /\ faults' = faults + 1
    /\ cleaners' = Replace(f, [f EXCEPT !.pc = "recycle"])
    /\ UNCHANGED <<store_vars, celery_vars, procs, pools, vm_info, all_vms, vm_lock,
                   backend, pool_ready, pools_shut, config, clock, cb_calls, blobs, ttl>>

\* _clean_and_return_vm: _run_cleanup_script(vm_info); time.sleep(10);
\* with self.vm_lock: vm_info.status = 'available'; then self.pools[...].put(vm_info)
CleanReturn(f) ==
    /\ f.pc = "clean"
    /\ vm_lock = None
    /\ vm_info' = [vm_info EXCEPT ![f.vm].status = "available"]
    /\ pools' = [pools EXCEPT ![vm_info[f.vm].edr_solution] = Append(@, f.vm)]
    /\ cleaners' = Drop(f)
    /\ UNCHANGED <<store_vars, celery_vars, procs, all_vms, vm_lock, backend,
                   pool_ready, pools_shut, config, clock, faults, cb_calls, blobs, ttl>>

\* _recycle_vm: self._delete_vm(vm_info); new_vm_name = ...;
\* new_vm_info = self._provision_vm(new_vm_name, edr_solution)
RecycleProvision(f) ==
    /\ f.pc = "recycle"
    /\ \E t \in ClockReads :
        LET l == vm_info[f.vm].edr_solution
            new == RecycledVmName(l, t)
        IN  /\ clock' = t
            /\ backend' = (backend \ {f.vm}) \cup {new}
            /\ vm_info' = (new :> NewVmInfo(l)) @@ vm_info
            /\ cleaners' = Replace(f, [f EXCEPT !.pc = "track", !.new = new])
    /\ UNCHANGED <<store_vars, celery_vars, procs, pools, all_vms, vm_lock,
                   pool_ready, pools_shut, config, faults, cb_calls, blobs, ttl>>

\* the frame ends: a thread exits; a call made inside release_vm returns to it,
\* which leaves its `with self.vm_lock` block
EndFrame(f) ==
    /\ cleaners' = Drop(f)
    /\ IF f.caller = None
       THEN UNCHANGED <<procs, vm_lock>>
       ELSE /\ vm_lock' = None
            /\ procs' = [procs EXCEPT ![f.caller] = Resume(@, AfterRelease(@))]

\* _delete_vm raises, or it deletes the VM and _provision_vm raises:
\* except Exception -> logged, nothing else
RecycleFails(f) ==
    /\ f.pc = "recycle"
    /\ faults < MaxPoolFaults
    /\ faults' = faults + 1
    /\ \E deleted \in BOOLEAN : backend' = IF deleted THEN backend \ {f.vm} ELSE backend
    /\ EndFrame(f)
    /\ UNCHANGED <<store_vars, celery_vars, pools, vm_info, all_vms,
                   pool_ready, pools_shut, config, clock, cb_calls, blobs, ttl>>

\* a tracking update that adds the replacement and keeps the old entry
RecycleTrackKeepsOld(f) ==
    /\ f.pc = "track"
    /\ vm_lock = None
    /\ all_vms' = all_vms \cup {f.new}
    /\ pools' = [pools EXCEPT ![vm_info[f.new].edr_solution] = Append(@, f.new)]
    /\ EndFrame(f)
    /\ UNCHANGED <<store_vars, celery_vars, vm_info, backend, pool_ready, pools_shut, config,
                   clock, faults, cb_calls, blobs, ttl>>

\* with self.vm_lock: del self.all_vms[old]; self.all_vms[new] = new_vm_info
\* then self.pools[...].put(new_vm_info); a KeyError of the del is caught and logged
RecycleTrack(f) ==
    /\ f.pc = "track"
    /\ vm_lock = None
    /\ IF f.vm \in all_vms
       THEN /\ all_vms' = (all_vms \ {f.vm}) \cup {f.new}
            /\ pools' = [pools EXCEPT ![vm_info[f.new].edr_solution] = Append(@, f.new)]
       ELSE UNCHANGED <<all_vms, pools>>
    /\ EndFrame(f)
    /\ UNCHANGED <<store_vars, celery_vars, vm_info, backend, pool_ready, pools_shut, config, clock,
                   faults, cb_calls, blobs, ttl>>

\* shutdown_pools: with self.vm_lock: _delete_vm on every tracked VMInfo, a
\* failed deletion logged; all_vms and the queues are left as they are
ShutdownPools ==
    /\ pool_ready
    /\ ~pools_shut
    /\ vm_lock = None
    /\ \E undeleted \in SUBSET all_vms :
        /\ faults + Cardinality(undeleted) <= MaxPoolFaults
        /\ faults' = faults + Cardinality(undeleted)
        /\ backend' = backend \ (all_vms \ undeleted)
    /\ pools_shut' = TRUE
    /\ UNCHANGED <<store_vars, celery_vars, procs, pools, vm_info, all_vms, vm_lock, cleaners,
                   pool_ready, config, clock, cb_calls, blobs, ttl>>

\* release_vm(vm, clean=True), entered once vm_lock is free
ReleaseVm(w, vm) ==
    /\ vm_lock = None
    /\ IF vm \notin all_vms
       THEN \* "not found in tracking": return
            /\ Goto(w, AfterRelease(procs[w]))
            /\ UNCHANGED <<vm_info, vm_lock, cleaners>>
       ELSE IF vm_info[vm].use_count >= config.max_vm_uses
       THEN \* self._recycle_vm(vm_info), called with vm_lock held
            /\ vm_lock' = w
            /\ cleaners' = cleaners (+) SetToBag({Frame(vm, "recycle", w, NoName)})
            /\ Goto(w, "rel_wait")
            /\ UNCHANGED vm_info
       ELSE \* status 'cleaning'; Thread(target=self._clean_and_return_vm).start()
            /\ vm_info' = [vm_info EXCEPT ![vm].status = "cleaning"]
            /\ cleaners' = cleaners (+) SetToBag({Frame(vm, "clean", None, NoName)})
            /\ Goto(w, AfterRelease(procs[w]))
            /\ UNCHANGED vm_lock

(***************************************************************************)
(* tasks/phase3_edr.py                                                     *)
(***************************************************************************)
\* test_edr_batch: update_job(current_phase 3, phase3_started_at)
EdrBatchStart(w) ==
    /\ At(w, "edr_start")
    /\ UpdateJob(w, Jid(w), [current_phase |-> 3], "edr_plan")
    /\ UNCHANGED <<results, jobs_list, issued, celery_vars, pool_vars, faults, cb_calls, blobs, ttl>>

EdrBatchPlan(w) ==
    /\ At(w, "edr_plan")
    /\ PlanAndChord(w, 3, "test_single_file_edr", EdrClients)
    /\ UNCHANGED <<results, jobs_list, issued, pool_vars, faults, cb_calls, blobs, ttl>>

EdrLoc(t, vm, status) ==
    [result |-> [file_path |-> t.file_info.file_path, version |-> t.file_info.version,
                 cdr_engine |-> t.file_info.cdr_engine, engine |-> t.engine,
                 status |-> status, vm_name |-> vm],
     retry |-> FALSE]

\* acquire_vm: vm_info = self.pools[edr_solution].get(timeout=timeout)
EdrAcquire(w) ==
    /\ At(w, "u3_acquire")
    /\ LET l == procs[w].task.engine
       IN  /\ pools[l] # <<>>
           /\ pools' = [pools EXCEPT ![l] = Tail(@)]
           /\ procs' = [procs EXCEPT ![w].pc = "u3_mark",
                                     ![w].loc = EdrLoc(procs[w].task, Head(pools[l]), "pending")]
    /\ UNCHANGED <<store_vars, celery_vars, vm_info, all_vms, vm_lock, cleaners, backend,
                   pool_ready, pools_shut, config, clock, faults, cb_calls, blobs, ttl>>

\* the queue stayed empty for `timeout` seconds: Empty -> TimeoutError -> except
\* Exception. With pools that were never filled every get ends so; with filled
\* pools a VM that does not come back within the hour is a failure of the pool.
EdrAcquireTimeout(w) ==
    /\ At(w, "u3_acquire")
    /\ pools[procs[w].task.engine] = <<>>
    /\ pool_ready => faults < MaxPoolFaults
    /\ faults' = IF pool_ready THEN faults + 1 ELSE faults
    /\ procs' = [procs EXCEPT ![w].pc = "u3_store",
                              ![w].loc = EdrLoc(procs[w].task, NoName, "error")]
    /\ UNCHANGED <<store_vars, celery_vars, pool_vars, cb_calls, blobs, ttl>>

\* acquire_vm: with self.vm_lock: status 'in_use', last_used_at, use_count += 1
EdrMarkInUse(w) ==
    /\ At(w, "u3_mark")
    /\ vm_lock = None
    /\ vm_info' = [vm_info EXCEPT ![procs[w].loc.result.vm_name] =
                        [@ EXCEPT !.status = "in_use", !.use_count = @ + 1]]
    /\ Goto(w, "u3_steps")
    /\ UNCHANGED <<store_vars, celery_vars, pools, all_vms, vm_lock, cleaners, backend,
                   pool_ready, pools_shut, config, clock, faults, cb_calls, blobs, ttl>>

\* the outcomes of steps 2-6 (download, copy, execute, sleep, get_alerts): the
\* get_alerts call evaluates timedelta(seconds=60), a NameError unless imported
StepOutcomes == IF TimedeltaImported THEN {"success", "error"} ELSE {"error"}

EdrUnitSteps(w) ==
    /\ At(w, "u3_steps")
    /\ \E status \in StepOutcomes :
        /\ (TimedeltaImported /\ status = "error") => faults < MaxFaults
        /\ faults' = IF TimedeltaImported /\ status = "error" THEN faults + 1 ELSE faults
        /\ procs' = [procs EXCEPT ![w].pc = "u3_store", ![w].loc.result.status = status]
    /\ UNCHANGED <<store_vars, celery_vars, pool_vars, cb_calls, blobs, ttl>>

\* if self.request.retries < self.max_retries
WillRetry(t, status) == status = "error" /\ t.retries < max_retries

\* job_manager.add_file_result(job_id, 'phase3', result), on both paths
EdrUnitStore(w) ==
    /\ At(w, "u3_store")
    /\ AddFileResult(Jid(w), 3, procs[w].loc.result)
    /\ Goto(w, IF WillRetry(procs[w].task, procs[w].loc.result.status)
               THEN "u3_retry" ELSE "u3_finally")
    /\ UNCHANGED <<jobs, jobs_list, issued, celery_vars, pool_vars, faults, cb_calls, blobs, ttl>>

\* raise self.retry(exc=e, countdown=60): the task is published again
EdrUnitRetry(w) ==
    /\ At(w, "u3_retry")
    /\ queue' = Append(queue, [procs[w].task EXCEPT !.retries = @ + 1])
    /\ procs' = [procs EXCEPT ![w].pc = "u3_finally", ![w].loc.retry = TRUE]
    /\ UNCHANGED <<store_vars, chords, pool_vars, faults, cb_calls, blobs, ttl>>

\* an attempt that forgets its VM when it retries
HoldsVmUnlessRetry(pr) == pr.loc.result.vm_name # NoName /\ ~pr.loc.retry

\* if vm: the attempt's acquire_vm returned a VM
HoldsVm(pr) == pr.loc.result.vm_name # NoName

\* finally: if vm: vm_pool_manager.release_vm(vm, clean=True)
EdrFinallyRelease(w) ==
    /\ At(w, "u3_finally")
    /\ HoldsVm(procs[w])
    /\ ReleaseVm(w, procs[w].loc.result.vm_name)
    /\ UNCHANGED <<store_vars, celery_vars, pools, all_vms, backend, pool_ready, pools_shut, config, clock,
                   faults, cb_calls, blobs, ttl>>

\* finally: vm is None
EdrFinallySkip(w) ==
    /\ At(w, "u3_finally")
    /\ ~HoldsVm(procs[w])
    /\ Goto(w, AfterRelease(procs[w]))
    /\ UNCHANGED <<store_vars, celery_vars, pool_vars, faults, cb_calls, blobs, ttl>>

\* on_edr_batch_complete: update_job(status completed, completed_at, phase3_summary)
EdrCallback(w) ==
    /\ At(w, "cb3_start")
    /\ LET rs == procs[w].task.results
       IN  UpdateJob(w, Jid(w),
                [status |-> "completed", phase3_completed |-> TRUE,
                 phase3_summary |-> [total_tests |-> Len(rs),
                                     successful |-> Count(rs, Successful)]],
                "idle")
    /\ cb_calls' = [cb_calls EXCEPT ![3] = Append(@, CallRecord(w, 3))]
    /\ UNCHANGED <<results, jobs_list, issued, celery_vars, pool_vars, faults, blobs, ttl>>

(***************************************************************************)
(* The completion callbacks' error paths: try: ... except Exception as e:  *)
(* job_manager.update_job(job_id, {'status': 'failed', 'error': ...}).     *)
(***************************************************************************)
\* where a callback calls the Job Store, and the phase it completes
CallbackPcs == {"cb1_start", "cb1_next", "cb2_start", "cb2_next", "cb3_start"}
CallbackPhase(pc) ==
    CASE pc \in {"cb1_start", "cb1_next"} -> 1
      [] pc \in {"cb2_start", "cb2_next"} -> 2
      [] OTHER -> 3

\* where the callback has just been entered
CallbackEntered(pc) == pc \in {"cb1_start", "cb2_start", "cb3_start"}

\* update_job or get_job raises inside the try block (Redis unreachable)
CallbackStoreFails(w) ==
    /\ procs[w].pc \in CallbackPcs
    /\ faults < MaxFaults
    /\ faults' = faults + 1
    /\ cb_calls' = IF CallbackEntered(procs[w].pc)
                   THEN [cb_calls EXCEPT ![CallbackPhase(procs[w].pc)] =
                            Append(@, CallRecord(w, CallbackPhase(procs[w].pc)))]
                   ELSE cb_calls
    /\ procs' = [procs EXCEPT ![w].pc = "cb_except",
                              ![w].loc = [cause |-> "store",
                                          phase |-> CallbackPhase(procs[w].pc)]]
    /\ UNCHANGED <<store_vars, celery_vars, pool_vars, blobs, ttl>>

\* scan_av_batch.apply_async / test_edr_batch.apply_async raises (broker unreachable)
CallbackScheduleFails(w) ==
    /\ procs[w].pc \in {"cb1_next", "cb2_next"}
    /\ JobFound(jobs[Jid(w)])
    /\ (CallbackPhase(procs[w].pc) + 1) \in jobs[Jid(w)].phases
    /\ faults < MaxFaults
    /\ faults' = faults + 1
    /\ procs' = [procs EXCEPT ![w].pc = "cb_except",
                              ![w].loc = [cause |-> "broker",
                                          phase |-> CallbackPhase(procs[w].pc)]]
    /\ UNCHANGED <<store_vars, celery_vars, pool_vars, cb_calls, blobs, ttl>>

\* except Exception: update_job(status failed, error) goes through
CallbackExcept(w) ==
    /\ At(w, "cb_except")
    /\ UpdateJob(w, Jid(w), [status |-> "failed", error |-> procs[w].loc.phase], "idle")
    /\ UNCHANGED <<results, jobs_list, issued, celery_vars, pool_vars, faults, cb_calls,
                   blobs, ttl>>

\* except Exception: Redis is still unreachable, update_job raises again and
\* nothing catches it: the exception leaves the task
CallbackExceptFails(w) ==
    /\ At(w, "cb_except")
    /\ procs[w].loc.cause = "store"
    /\ Goto(w, "cb_raised")
    /\ UNCHANGED <<store_vars, celery_vars, pool_vars, faults, cb_calls, blobs, ttl>>

\* Celery records the task as failed; the worker is free again
CallbackRaised(w) ==
    /\ At(w, "cb_raised")
    /\ Goto(w, "idle")
    /\ UNCHANGED <<store_vars, celery_vars, pool_vars, faults, cb_calls, blobs, ttl>>


(***************************************************************************)
(* The system.                                                             *)
(***************************************************************************)
StoreStep(p) == ProgressRead(p) \/ ProgressWrite(p)

ApiStep == CreateBatchJob \/ CancelRead \/ CancelWrite \/ CancelReturn

Phase1Step(w) ==
    \/ CdrBatchStart(w) \/ CdrBatchList(w) \/ CdrBatchListFails(w) \/ CdrBatchChord(w)
    \/ CdrUnitWork(w) \/ CdrUnitStore(w) \/ IncrementFailed(w) \/ IncrementProcessed(w)
    \/ CdrCallbackStart(w) \/ CdrCallbackNext(w)

Phase2Step(w) ==
    \/ AvBatchStart(w) \/ AvBatchPlan(w) \/ AvUnitWork(w) \/ AvUnitStore(w)
    \/ AvCallbackStart(w) \/ AvCallbackNext(w)

\* the steps of Phase 3 that touch no VM
Phase3Step(w) ==
    \/ EdrBatchStart(w) \/ EdrBatchPlan(w) \/ EdrAcquireTimeout(w)
    \/ EdrUnitStore(w) \/ EdrUnitRetry(w) \/ EdrFinallySkip(w) \/ EdrCallback(w)

\* the steps of a Phase-3 unit that holds a VM
VmUnitStep(w) ==
    EdrAcquire(w) \/ EdrMarkInUse(w) \/ EdrUnitSteps(w) \/ EdrFinallyRelease(w)

WorkerStep(w) ==
    TakeTask(w) \/ Phase1Step(w) \/ Phase2Step(w) \/ Phase3Step(w) \/ UnitReturn(w)

PoolStep(f) ==
    \/ CleanupFails(f) \/ CleanReturn(f)
    \/ RecycleProvision(f) \/ RecycleFails(f) \/ RecycleTrack(f)

\* The pipeline as the repository runs it: the worker's module-level VMPoolManager
\* is constructed with empty queues and nothing calls initialize_pools.
Next ==
    \/ ApiStep
    \/ \E p \in ProcIds : StoreStep(p)
    \/ \E w \in Workers : WorkerStep(w)

Spec == Init /\ [][Next]_vars

\* Workers pick up published tasks and every started Redis call returns; whether
\* and when a client posts or cancels a job is left open.
Fairness ==
    /\ \A w \in Workers : WF_vars(WorkerStep(w))
    /\ \A p \in ProcIds : WF_vars(StoreStep(p))
    /\ WF_vars(CancelWrite \/ CancelReturn)

FairSpec == Spec /\ Fairness

\* Two worker processes and no cancellation; Phase-3 units are published but
\* not run, so the fan-out of Phases 1 and 2 and the three batch tasks are
\* explored under every interleaving of the two workers.
ParStep(w) ==
    \/ TakeTask(w) \/ Phase1Step(w) \/ Phase2Step(w)
    \/ EdrBatchStart(w) \/ EdrBatchPlan(w) \/ UnitReturn(w)

NextPar ==
    \/ CreateBatchJob
    \/ \E p \in ProcIds : StoreStep(p)
    \/ \E w \in ParWorkers : ParStep(w)

SpecPar == Init /\ [][NextPar]_vars

\* The deployment the pool is written for: initialize_pools runs at startup,
\* before any request; worker w1 serves the queues phase1 and phase2, and the
\* threads of a second worker process serve phase3 and share its VMPoolManager.
\* The scenario: a job of all three phases on a file that only the first CDR
\* engine sanitizes; the adapters of Phases 1 and 2 answer; pool operations may fail.
PipelineStep(w) ==
    \/ TakeRouted(w, {"phase1", "phase2"})
    \/ CdrBatchStart(w) \/ CdrBatchList(w) \/ CdrBatchChord(w)
    \/ (/\ CdrUnitOutcome(w, IF procs[w].task.engine_name = CdrEngines[1]
                              THEN "success" ELSE "failed")
        /\ UNCHANGED faults)
    \/ CdrUnitStore(w) \/ IncrementProcessed(w)
    \/ CdrCallbackStart(w) \/ CdrCallbackNext(w)
    \/ AvBatchStart(w) \/ AvBatchPlan(w)
    \/ (AvUnitWork(w) /\ faults' = faults)
    \/ AvUnitStore(w) \/ AvCallbackStart(w) \/ AvCallbackNext(w)
    \/ UnitReturn(w)

PoolWorkerStep(w) ==
    \/ TakeRouted(w, {"phase3"})
    \/ EdrBatchStart(w) \/ EdrBatchPlan(w) \/ EdrAcquireTimeout(w)
    \/ EdrUnitStore(w) \/ EdrUnitRetry(w) \/ EdrFinallySkip(w)
    \/ VmUnitStep(w)

NextPool ==
    \/ InitializePools
    \/ (/\ pool_ready
        /\ CreateBatchJob
        /\ \A j \in issued' : jobs'[j].phases = {1, 2, 3}
        /\ Head(queue').file_paths = [is_none |-> FALSE, paths |-> AllFiles])
    \/ \E p \in ProcIds : StoreStep(p)
    \/ PipelineStep("w1")
    \/ PoolWorkerStep("w2")
    \/ \E f \in BagToSet(cleaners) : PoolStep(f)

SpecPool == Init /\ [][NextPool]_vars

\* Every thread that can take a step takes one: workers pick up published
\* tasks, started calls return, and the pool's threads and backend calls end.
PoolFairness ==
    /\ WF_vars(PipelineStep("w1"))
    /\ WF_vars(PoolWorkerStep("w2"))
    /\ \A p \in ProcIds : WF_vars(StoreStep(p))
    /\ WF_vars(\E f \in BagToSet(cleaners) : PoolStep(f))

FairSpecPool == SpecPool /\ PoolFairness

\* The same deployment with two threads serving phase3, configured with one VM
\* per label and the largest max_vm_uses; no pool operation fails, and a
\* thread that finds its label's queue empty times out.
NextPoolPar ==
    \/ (/\ InitializePools
        /\ config' = [pool_size |-> 1, max_vm_uses |-> MaxVmUses]
        /\ faults' = faults)
    \/ (/\ pool_ready
        /\ CreateBatchJob
        /\ \A j \in issued' : jobs'[j].phases = {1, 2, 3}
        /\ Head(queue').file_paths = [is_none |-> FALSE, paths |-> AllFiles])
    \/ \E p \in ProcIds : StoreStep(p)
    \/ PipelineStep("w1")
    \/ \E w \in PoolWorkers : PoolWorkerStep(w)
    \/ \E f \in BagToSet(cleaners) : (PoolStep(f) /\ faults' = faults)

SpecPoolPar == Init /\ [][NextPoolPar]_vars

PoolParFairness ==
    /\ WF_vars(PipelineStep("w1"))
    /\ \A w \in PoolWorkers : WF_vars(PoolWorkerStep(w))
    /\ \A p \in ProcIds : WF_vars(StoreStep(p))
    /\ WF_vars(\E f \in BagToSet(cleaners) : (PoolStep(f) /\ faults' = faults))

FairSpecPoolPar == SpecPoolPar /\ PoolParFairness

\* The deployment with one thread serving phase3 and one VM per label, whose
\* operator calls shutdown_pools at some point; no pool operation fails.
NextShutdown ==
    \/ (/\ InitializePools
        /\ config' = [pool_size |-> 1, max_vm_uses |-> MaxVmUses]
        /\ faults' = faults)
    \/ (/\ pool_ready
        /\ CreateBatchJob
        /\ \A j \in issued' : jobs'[j].phases = {1, 2, 3}
        /\ Head(queue').file_paths = [is_none |-> FALSE, paths |-> AllFiles])
    \/ \E p \in ProcIds : StoreStep(p)
    \/ PipelineStep("w1")
    \/ PoolWorkerStep("w2")
    \/ \E f \in BagToSet(cleaners) : (PoolStep(f) /\ faults' = faults)
    \/ (ShutdownPools /\ faults' = faults)

SpecShutdown == Init /\ [][NextShutdown]_vars


\* The pipeline as the repository runs it, with one worker and no cancellation,
\* in which a Redis or broker call of a completion callback may fail.
CallbackFailStep(w) ==
    \/ CallbackStoreFails(w) \/ CallbackScheduleFails(w)
    \/ CallbackExcept(w) \/ CallbackExceptFails(w) \/ CallbackRaised(w)

NextCallback ==
    \/ CreateBatchJob
    \/ \E p \in ProcIds : StoreStep(p)
    \/ \E w \in Workers : (WorkerStep(w) \/ CallbackFailStep(w))

SpecCallback == Init /\ [][NextCallback]_vars

\* the worker keeps taking and running tasks, and every started Redis call returns
CallbackFairness ==
    /\ \A w \in Workers : WF_vars(WorkerStep(w) \/ CallbackFailStep(w))
    /\ \A p \in ProcIds : WF_vars(StoreStep(p))

FairSpecCallback == SpecCallback /\ CallbackFairness

(***************************************************************************)
(* VMPoolManager on its own: a client thread that calls acquire_vm and     *)
(* release_vm directly, releasing what it holds once or more than once.    *)
(***************************************************************************)
\* acquire_vm(l): queue get, then status 'in_use' and use_count += 1 under vm_lock
PoolClientAcquire(w, l) ==
    /\ At(w, "idle")
    /\ pool_ready
    /\ pools[l] # <<>>
    /\ vm_lock = None
    /\ pools' = [pools EXCEPT ![l] = Tail(@)]
    /\ vm_info' = [vm_info EXCEPT ![Head(pools[l])] =
                        [@ EXCEPT !.status = "in_use", !.use_count = @ + 1]]
    /\ procs' = [procs EXCEPT ![w] =
                    [IdleProc EXCEPT !.pc = "holding",
                                     !.task = [name |-> "pool_client"],
                                     !.loc = [vm |-> Head(pools[l]), released |-> 0]]]
    /\ UNCHANGED <<store_vars, celery_vars, all_vms, vm_lock, cleaners, backend, pool_ready,
                   pools_shut, config, clock, faults, cb_calls, blobs, ttl>>

\* release_vm(vm, clean) on the VM the client acquired
PoolClientRelease(w, clean) ==
    /\ At(w, "holding")
    /\ procs[w].loc.released < MaxReleases
    /\ vm_lock = None
    /\ LET vm == procs[w].loc.vm
           l == vm_info[vm].edr_solution
           back == [procs EXCEPT ![w].loc.released = @ + 1]
       IN  IF vm \notin all_vms
           THEN \* "not found in tracking": return
                /\ procs' = back
                /\ UNCHANGED <<pools, vm_info, vm_lock, cleaners>>
           ELSE IF vm_info[vm].use_count >= config.max_vm_uses
           THEN \* self._recycle_vm(vm_info), called with vm_lock held
                /\ vm_lock' = w
                /\ cleaners' = cleaners (+) SetToBag({Frame(vm, "recycle", w, NoName)})
                /\ procs' = [back EXCEPT ![w].pc = "rel_wait"]
                /\ UNCHANGED <<pools, vm_info>>
           ELSE IF clean
           THEN \* status 'cleaning'; Thread(target=self._clean_and_return_vm).start()
                /\ vm_info' = [vm_info EXCEPT ![vm].status = "cleaning"]
                /\ cleaners' = cleaners (+) SetToBag({Frame(vm, "clean", None, NoName)})
                /\ procs' = back
                /\ UNCHANGED <<pools, vm_lock>>
           ELSE \* status 'available'; self.pools[edr_solution].put(vm_info)
                /\ vm_info' = [vm_info EXCEPT ![vm].status = "available"]
                /\ pools' = [pools EXCEPT ![l] = Append(@, vm)]
                /\ procs' = back
                /\ UNCHANGED <<vm_lock, cleaners>>
    /\ UNCHANGED <<store_vars, celery_vars, all_vms, backend, pool_ready, pools_shut, config,
                   clock, faults, cb_calls, blobs, ttl>>

\* the client has released its VM and goes on
PoolClientDone(w) ==
    /\ At(w, "holding")
    /\ procs[w].loc.released > 0
    /\ Goto(w, "idle")
    /\ UNCHANGED <<store_vars, celery_vars, pool_vars, faults, cb_calls, blobs, ttl>>

\* one client thread on pools of one VM per label; no pool operation fails
NextPoolApi ==
    \/ (/\ InitializePools
        /\ config' = [pool_size |-> 1, max_vm_uses |-> MaxVmUses]
        /\ faults' = faults)
    \/ \E l \in Labels : PoolClientAcquire("w2", l)
    \/ \E clean \in BOOLEAN : PoolClientRelease("w2", clean)
    \/ PoolClientDone("w2")
    \/ \E f \in BagToSet(cleaners) : (faults' = faults /\ PoolStep(f))

SpecPoolApi == Init /\ [][NextPoolApi]_vars

(***************************************************************************)
(* JobManager on its own: clients calling its methods on two jobs, among   *)
(* them delete_job, while Redis expires the keys that have a time to live. *)
(***************************************************************************)
StoreJobs == {"j1", "j2"}

InitStore ==
    /\ jobs = [j \in StoreJobs |-> EmptyHash]
    /\ results = [j \in StoreJobs |-> [n \in 1..3 |-> <<>>]]
    /\ jobs_list = <<>>
    /\ issued = {}
    /\ queue = <<>>
    /\ chords = [j \in JobIds |-> [n \in 1..3 |-> NoChord]]
    /\ procs = [p \in ProcIds |-> IdleProc]
    /\ pools = [l \in Labels |-> <<>>]
    /\ vm_info = EmptyHash
    /\ all_vms = {}
    /\ vm_lock = None
    /\ cleaners = EmptyBag
    /\ backend = {}
    /\ pool_ready = FALSE
    /\ pools_shut = FALSE
    /\ config = NoConfig
    /\ clock = 0
    /\ faults = 0
    /\ cb_calls = [n \in 1..3 |-> <<>>]
    /\ blobs = {}
    /\ ttl = NoTtl

\* what the store-level actions leave alone
rest_vars == <<queue, chords, pools, vm_info, all_vms, vm_lock, cleaners, backend, pool_ready,
               pools_shut, config, clock, faults, cb_calls, blobs>>

\* an lrem that removes nothing
LKeep(list, x) == list

\* redis lrem(key, 0, x): every occurrence of x is removed
LRem(list, x) == SelectSeq(list, LAMBDA y : y # x)

\* redis delete(key): the key is gone, and its time to live with it
DelTtl(t, k) == [t EXCEPT !.keys = @ \ {k}]

\* the progress refresh at the end of update_job and increment_processed, on
\* the hash h as it is read back; a hash without total_files ends it (KeyError)
Refreshed(h) ==
    IF "total_files" \in DOMAIN h /\ "processed_files" \in DOMAIN h /\ h.total_files > 0
    THEN HSet(h, [progress_percentage |-> Progress(h.processed_files, h.total_files)])
    ELSE h

\* create_job(j, ...): hset, lpush jobs:list, expire job:<id> 604800
StoreCreateJob(j) ==
    /\ j \notin issued
    /\ issued' = issued \cup {j}
    /\ jobs' = [jobs EXCEPT ![j] = HSet(@, NewJobData(j, {1, 2, 3}))]
    /\ jobs_list' = <<j>> \o jobs_list
    /\ ttl' = Expire(ttl, Key(j, 0))
    /\ UNCHANGED <<results, procs, rest_vars>>

\* update_job(j, {'total_files': MaxFiles}): hset, then the progress refresh
StoreUpdateJob(j) ==
    /\ j \in issued
    /\ ~("total_files" \in DOMAIN jobs[j] /\ jobs[j].total_files = MaxFiles)
    /\ jobs' = [jobs EXCEPT ![j] = Refreshed(HSet(@, [total_files |-> MaxFiles]))]
    /\ UNCHANGED <<results, jobs_list, issued, procs, ttl, rest_vars>>

\* add_file_result(j, 'phase<n>', result): rpush job:<id>:phase<n>
StoreAddFileResult(j, n) ==
    /\ j \in issued
    /\ Len(results[j][n]) < MaxStoreOps
    /\ AddFileResult(j, n, [status |-> "success"])
    /\ UNCHANGED <<jobs, jobs_list, issued, procs, ttl, rest_vars>>

\* increment_processed(j): hincrby processed_files, then the progress refresh
StoreIncrementProcessed(j) ==
    /\ j \in issued
    /\ "processed_files" \in DOMAIN jobs[j] => jobs[j].processed_files < MaxStoreOps
    /\ jobs' = [jobs EXCEPT ![j] = Refreshed(HIncrBy(@, "processed_files", 1))]
    /\ UNCHANGED <<results, jobs_list, issued, procs, ttl, rest_vars>>

\* delete_job(j): self.redis_client.delete(f"job:{job_id}")
DeleteJobStart(j) ==
    /\ At(ApiProc, "idle")
    /\ j \in issued
    /\ jobs' = [jobs EXCEPT ![j] = EmptyHash]
    /\ ttl' = DelTtl(ttl, Key(j, 0))
    /\ procs' = [procs EXCEPT ![ApiProc] =
                    [IdleProc EXCEPT !.pc = "del_phase",
                                     !.task = [name |-> "delete_job", job_id |-> j],
                                     !.loc = [phase |-> 1]]]
    /\ UNCHANGED <<results, jobs_list, issued, rest_vars>>

\* self.redis_client.delete(f"job:{job_id}:phase1"), then phase2, then phase3
DeleteJobPhase ==
    /\ At(ApiProc, "del_phase")
    /\ LET n == procs[ApiProc].loc.phase
       IN  /\ results' = [results EXCEPT ![Jid(ApiProc)][n] = <<>>]
           /\ ttl' = DelTtl(ttl, Key(Jid(ApiProc), n))
           /\ procs' = IF n < 3
                       THEN [procs EXCEPT ![ApiProc].loc.phase = n + 1]
                       ELSE [procs EXCEPT ![ApiProc].pc = "del_lrem"]
    /\ UNCHANGED <<jobs, jobs_list, issued, rest_vars>>

\* self.redis_client.lrem('jobs:list', 0, job_id)
DeleteJobLrem ==
    /\ At(ApiProc, "del_lrem")
    /\ jobs_list' = LRem(jobs_list, Jid(ApiProc))
    /\ procs' = [procs EXCEPT ![ApiProc].pc = "del_done"]
    /\ UNCHANGED <<jobs, results, issued, ttl, rest_vars>>

\* delete_job returns
DeleteJobReturn ==
    /\ At(ApiProc, "del_done")
    /\ Goto(ApiProc, "idle")
    /\ UNCHANGED <<store_vars, ttl, rest_vars>>

\* Redis, 7 days after create_job(j): the keys of j that have a time to live
\* are removed
SevenDaysPass(j) ==
    /\ j \in issued
    /\ j \notin ttl.due
    /\ jobs' = [jobs EXCEPT ![j] = IF Key(j, 0) \in ttl.keys THEN EmptyHash ELSE @]
    /\ results' = [results EXCEPT ![j] =
                        [n \in 1..3 |-> IF Key(j, n) \in ttl.keys THEN <<>> ELSE @[n]]]
    /\ ttl' = [keys |-> {k \in ttl.keys : k[1] # j}, due |-> ttl.due \cup {j}]
    /\ UNCHANGED <<jobs_list, issued, procs, rest_vars>>

\* the job a running delete_job is deleting
Deleting == IF procs[ApiProc].pc \in {"del_phase", "del_lrem", "del_done"}
            THEN {Jid(ApiProc)} ELSE {}

\* clients do not write to a job while it is being deleted
NextStore ==
    \/ \E j \in StoreJobs : StoreCreateJob(j)
    \/ \E j \in StoreJobs \ Deleting : StoreUpdateJob(j)
    \/ \E j \in StoreJobs \ Deleting, n \in 1..3 : StoreAddFileResult(j, n)
    \/ \E j \in StoreJobs \ Deleting : StoreIncrementProcessed(j)
    \/ \E j \in StoreJobs : DeleteJobStart(j)
    \/ DeleteJobPhase
    \/ DeleteJobLrem
    \/ DeleteJobReturn
    \/ \E j \in StoreJobs : SevenDaysPass(j)

SpecStore == InitStore /\ [][NextStore]_vars

(***************************************************************************)
(* Properties of the job record.                                           *)
(***************************************************************************)
Created(j) == JobFound(jobs[j])
StatusIs(j, s) == Created(j) /\ jobs[j].status = s

\* the status moves the job lifecycle allows: out of pending, out of running
\* into a terminal status, and none out of a terminal status
LifecycleMoves ==
    {<<"pending", "running">>} \cup
    {<<s, t>> : s \in {"pending", "running"}, t \in Terminal}

\* C1: a job's status only ever moves along pending -> running ->
\* {completed, failed, cancelled}; a terminal status never changes again.
C1_StatusFollowsLifecycle ==
    [][\A j \in JobIds :
        (Created(j) /\ jobs'[j].status # jobs[j].status)
            => <<jobs[j].status, jobs'[j].status>> \in LifecycleMoves]_vars

\* C2: an update_job that carries a status, applied to a job whose status is
\* terminal, leaves the status unchanged.
C2_UpdateJobKeepsTerminal ==
    [][\A j \in JobIds, p \in ProcIds :
        (Created(j) /\ jobs[j].status \in Terminal
            /\ procs[p].pc # "progress_read" /\ procs'[p].pc = "progress_read"
            /\ procs'[p].task.job_id = j)
            => jobs'[j].status = jobs[j].status]_vars

\* the messages a step publishes
Published ==
    IF Len(queue') > Len(queue) THEN SubSeq(queue', Len(queue) + 1, Len(queue')) ELSE <<>>

\* m starts a phase of job j or is the first attempt of one of its units
IsDispatch(m, j) ==
    /\ m.name \in {"scan_av_batch", "test_edr_batch"} \cup UnitNames
    /\ m.job_id = j
    /\ m.name = "test_single_file_edr" => m.retries = 0

\* C3: once a job's status is cancelled, no step marks it completed or gives it
\* any other status, and no step schedules a next phase or dispatches new units.
C3_CancelHaltsWiring ==
    [][\A j \in JobIds :
        StatusIs(j, "cancelled")
            => /\ jobs'[j].status = "cancelled"
               /\ \A k \in 1..Len(Published) : ~IsDispatch(Published[k], j)]_vars

\* C4: every created job, whatever phases it enables, eventually has one
\* terminal status and keeps it forever.
C4_EventuallyTerminal ==
    \A j \in JobIds :
        [](Created(j) => \E s \in Terminal : <>[]StatusIs(j, s))

(***************************************************************************)
(* Properties of the phase barriers.                                       *)
(***************************************************************************)
\* C5: for k in {1, 2}, once the units of Phase k+1 have been dispatched every
\* unit of Phase k has returned and none is queued or running.
C5_PhaseBarrier ==
    \A j \in JobIds, k \in {1, 2} :
        chords[j][k + 1].made => ChordComplete(chords[j][k]) /\ ~InFlight(j, k)

\* Phase-3 units are dispatched behind Phase-2 units of which the first one
\* dispatched was overtaken by a unit on the other worker
C5_Witness ==
    /\ chords["j1"][3].made
    /\ Len(chords["j1"][3].tasks) > 0
    /\ Len(chords["j1"][2].tasks) > 0
    /\ \E a, b \in 1..Len(results["j1"][2]) :
            a < b /\ chords["j1"][2].tasks[1].file_info.file_path
                        = results["j1"][2][b].file_path
                  /\ results["j1"][2][b].engine = chords["j1"][2].tasks[1].engine

\* result r is the result of unit t
ResultOf(t, r) ==
    IF t.name = "process_single_file_cdr"
    THEN r.file_path = t.file_path /\ r.engine_name = t.engine_name
    ELSE r.file_path = t.file_info.file_path /\ r.engine = t.engine

CallsOf(j, n) == {i \in 1..Len(cb_calls[n]) : cb_calls[n][i].job_id = j}

\* C6: per job and phase the completion callback is invoked at most once, and
\* once before the next phase is planned; it is invoked only after every unit
\* of the phase has returned with none queued or running, and with exactly one
\* result per dispatched unit, in the order of dispatch.
C6_CallbackOncePerPhase ==
    \A j \in JobIds, n \in 1..3 :
        /\ Cardinality(CallsOf(j, n)) <= 1
        /\ (n < 3 /\ chords[j][n + 1].made) => Cardinality(CallsOf(j, n)) = 1
        /\ \A i \in CallsOf(j, n) :
            LET c == cb_calls[n][i]
                ch == chords[j][n]
            IN  /\ ChordComplete(ch)
                /\ ~c.in_flight
                /\ Len(c.results) = Len(ch.tasks)
                /\ \A k \in 1..Len(ch.tasks) : ResultOf(ch.tasks[k], c.results[k])

\* the Phase-3 callback has run on the results of units that were retried
C6_Witness ==
    /\ CallsOf("j1", 3) # {}
    /\ Len(cb_calls[3][1].results) > 0
    /\ Len(results["j1"][3]) > Len(cb_calls[3][1].results)

\* C7: once a phase has joined, its stored result list is as long as the
\* number of units dispatched for it: a retried unit has stored one result.
C7_OneStoredResultPerUnit ==
    \A j \in JobIds, n \in 1..3 :
        ChordComplete(chords[j][n]) => Len(results[j][n]) = Len(chords[j][n].tasks)

(***************************************************************************)
(* Properties of the counters.                                             *)
(***************************************************************************)
\* C8: a completed job has processed_files = total_files.
C8_CompletedAllProcessed ==
    \A j \in JobIds :
        StatusIs(j, "completed") => jobs[j].processed_files = jobs[j].total_files

\* C9: in every reachable state processed_files <= total_files.
C9_ProcessedAtMostTotal ==
    \A j \in JobIds : Created(j) => jobs[j].processed_files <= jobs[j].total_files

\* C10: in every reachable state, the ones between the two stores of
\* increment_failed included, failed_files <= processed_files.
C10_FailedAtMostProcessed ==
    \A j \in JobIds : Created(j) => jobs[j].failed_files <= jobs[j].processed_files


(***************************************************************************)
(* Properties of cancel_job.                                               *)
(***************************************************************************)
\* C19: cancel_job(J) returns true exactly when J exists with status pending
\* or running, and its write then takes that status to cancelled; when J is
\* missing or already completed, failed or cancelled it returns false and
\* changes nothing in the store.
C19_CancelJobContract ==
    [][LET a == procs[ApiProc]
           b == procs'[ApiProc]
       IN  /\ (a.pc = "idle" /\ b.pc \in {"cancel_write", "cancel_false"})
                => /\ (b.pc = "cancel_write")
                        <=> (Created(b.task.job_id)
                             /\ jobs[b.task.job_id].status \in {"pending", "running"})
                   /\ UNCHANGED store_vars
           /\ (a.pc = "cancel_write" /\ b.pc # "cancel_write")
                => /\ jobs[a.task.job_id].status \in {"pending", "running"}
                   /\ jobs'[a.task.job_id].status = "cancelled"
           /\ (a.pc = "cancel_false" /\ b.pc # "cancel_false")
                => UNCHANGED store_vars]_vars

(***************************************************************************)
(* Properties of the Phase-3 retry policy.                                 *)
(***************************************************************************)
\* the attempt worker w runs found no VM: acquire_vm raised TimeoutError
TimedOut(w) ==
    /\ procs[w].task.name = "test_single_file_edr"
    /\ procs[w].pc \in {"u3_store", "u3_retry", "u3_finally"}
    /\ procs[w].loc.result.vm_name = NoName

\* C15: acquire-timeouts are not retried: an attempt of a Phase-3 unit whose
\* acquire_vm raised TimeoutError does not publish the unit again.
C15_TimeoutNotRetried ==
    [][\A w \in AllWorkers :
        TimedOut(w) =>
            \A k \in 1..Len(Published) :
                ~(Published[k].name = "test_single_file_edr"
                  /\ Published[k].idx = procs[w].task.idx)]_vars

\* the Phase-3 unit messages that are published or being run
EdrAttempts ==
    {queue[k] : k \in {i \in 1..Len(queue) : queue[i].name = "test_single_file_edr"}}
    \cup {procs[w].task : w \in {v \in AllWorkers : procs[v].task.name = "test_single_file_edr"}}

\* C16: a Phase-3 unit is executed at most MaxRetries (3) times in total: no
\* attempt beyond the third is published or run.
C16_AtMostMaxRetriesAttempts ==
    \A m \in EdrAttempts : m.retries + 1 <= max_retries

(***************************************************************************)
(* Properties of the phase wiring.                                         *)
(***************************************************************************)
\* C17: a job that enables Phase 2 or 3 but not Phase 1 eventually has status
\* failed (unless the client cancels it first), and no Phase-2 or Phase-3 unit
\* is ever dispatched for it.
C17_NoPhase1FailsPlanning ==
    \A j \in JobIds :
        []((Created(j) /\ 1 \notin jobs[j].phases /\ jobs[j].phases # {})
            => /\ <>(StatusIs(j, "failed") \/ StatusIs(j, "cancelled"))
               /\ ~chords[j][2].made /\ ~chords[j][3].made)

\* C18: for a job that enables Phase 1, only enabled phases are planned, and
\* the status is completed only once every enabled phase has joined (with
\* phases {1, 3}: once Phase 3 has run after Phase 1).
C18_CompletedAfterLastEnabledPhase ==
    \A j \in JobIds :
        (Created(j) /\ 1 \in jobs[j].phases)
            => /\ \A n \in 1..3 : chords[j][n].made => n \in jobs[j].phases
               /\ StatusIs(j, "completed")
                    => \A n \in jobs[j].phases : ChordComplete(chords[j][n])

(***************************************************************************)
(* Properties of an empty batch.                                           *)
(***************************************************************************)
\* process_cdr_batch of job j is about to apply its chord to no file
EmptyBatch(j) ==
    \E w \in AllWorkers :
        /\ At(w, "cdr_chord")
        /\ Jid(w) = j
        /\ procs[w].loc.file_paths = <<>>

\* no unit of job j was dispatched and none stored a result
NoUnits(j) ==
    \A n \in 1..3 : chords[j][n].tasks = <<>> /\ results[j][n] = <<>>

\* C20: with no file path given and an empty listing, whatever phases besides
\* Phase 1 are enabled, the job dispatches no unit and reaches completed with
\* total_files = 0 and progress_percentage = 0.
C20_EmptyBatchCompletes ==
    \A j \in JobIds :
        EmptyBatch(j) ~> (/\ StatusIs(j, "completed")
                          /\ jobs[j].total_files = 0
                          /\ jobs[j].progress_percentage = ZeroProgress
                          /\ NoUnits(j))

\* an empty batch with all three phases enabled has completed through all
\* three callbacks
C20_Witness ==
    /\ StatusIs("j1", "completed")
    /\ jobs["j1"].phases = {1, 2, 3}
    /\ jobs["j1"].total_files = 0
    /\ \A n \in 1..3 : chords["j1"][n].made /\ cb_calls[n] # <<>>

(***************************************************************************)
(* Properties of the VM pool and of its callers.                           *)
(***************************************************************************)
\* the positions of an attempt of a Phase-3 unit
AttemptPcs == {"u3_acquire", "u3_mark", "u3_steps", "u3_store", "u3_retry", "u3_finally",
               "rel_wait"}

\* the frames release_vm(v) may start on behalf of caller w
ReleaseFrames(w, v) == {Frame(v, "clean", None, NoName), Frame(v, "recycle", w, NoName)}

Holders(v) ==
    {w \in PoolWorkers : /\ procs[w].pc \in {"u3_mark", "u3_steps", "u3_store", "u3_retry",
                                             "u3_finally"}
                         /\ procs[w].loc.result.vm_name = v}

\* v is an entry of its label's queue
InQueue(v) == \E l \in Labels : v \in Range(pools[l])

\* C12: every VM is held by at most one caller, and a VM that is held, being
\* cleaned or being recycled is not in its label's queue.
C12_HeldByAtMostOne ==
    \A v \in DOMAIN vm_info :
        /\ Cardinality(Holders(v)) <= 1
        /\ Holders(v) # {} => ~InQueue(v)
        /\ (\E f \in BagToSet(cleaners) : f.vm = v) => ~InQueue(v)

\* the names a replacement of a VM of label l can get
Replacements(l) == {RecycledVmName(l, t) : t \in 0..MaxClock}

\* release_vm has found a VM of label l at its max_vm_uses and is recycling it
ReleaseRecycles(l) ==
    \E f \in BagToSet(cleaners) : f.caller # None /\ vm_info[f.vm].edr_solution = l

\* a freshly provisioned VM with a new name waits in l's queue, so that the
\* next acquire_vm(l) returns it with use_count 1
FreshAvailable(l) ==
    \E v \in Replacements(l) :
        v \in Range(pools[l]) /\ v \in all_vms /\ vm_info[v].use_count = 0

\* C13: with one VM per label, once the release that finds the VM at
\* max_vm_uses starts recycling it, a freshly provisioned VM with a new name
\* and use_count 0 eventually is in the label's queue for the next acquire_vm.
C13_RecycleYieldsFreshVm ==
    \A l \in Labels :
        (config.pool_size = 1 /\ ReleaseRecycles(l)) ~> FreshAvailable(l)

\* caller w of acquire_vm has taken an Available VM from its label's queue and
\* all release, cleaning and recycling in progress concerns other labels
AcquiringApart(w) ==
    /\ procs[w].pc = "u3_mark"
    /\ \A f \in BagToSet(cleaners) :
        vm_info[f.vm].edr_solution # procs[w].task.engine

\* C14: an acquire_vm(A) that found an Available VM in A's queue completes,
\* whatever release, cleaning or recycling goes on for the other labels.
C14_LabelsDoNotBlockEachOther ==
    \A w \in PoolWorkers : AcquiringApart(w) ~> (procs[w].pc = "u3_steps")

(***************************************************************************)
(* Properties of the fan-out and of the plans.                             *)
(***************************************************************************)
\* the files of job j's batch, as counted in total_files
BatchFiles(j) == SubSeq(AllFiles, 1, jobs[j].total_files)

\* the stored Phase-1 results of job j for file f and CDR engine e
CdrResultsOf(j, f, e) ==
    {k \in DOMAIN results[j][1] :
        results[j][1][k].file_path = f /\ results[j][1][k].engine_name = e}

\* C21: at the Phase-1 join the Phase-1 result list holds |files| x |CDR
\* engines| results, exactly one for each file and engine, whatever the
\* outcomes of the units were.
C21_Phase1FanOut ==
    \A j \in JobIds :
        ChordComplete(chords[j][1]) =>
            /\ Len(results[j][1]) = Len(BatchFiles(j)) * Len(CdrEngines)
            /\ \A f \in Range(BatchFiles(j)), e \in Range(CdrEngines) :
                Cardinality(CdrResultsOf(j, f, e)) = 1

\* Phase 1 has joined on a batch of one file of which one unit did not succeed
C21_Witness ==
    \E j \in JobIds :
        /\ ChordComplete(chords[j][1])
        /\ Len(results[j][1]) = Len(CdrEngines)
        /\ \E k \in DOMAIN results[j][1] : results[j][1][k].status # "success"

\* the CDR engines with a success result for file f in job j's Phase-1 list
SuccessEngines(j, f) ==
    {e \in Range(CdrEngines) :
        \E k \in CdrResultsOf(j, f, e) : results[j][1][k].status = "success"}

\* what Phase 2 has to scan: per file with a success result the original
\* (engine None) and one sanitized version per engine that succeeded on it
PlanPairs(j) ==
    {p \in Range(BatchFiles(j)) \X ({None} \cup Range(CdrEngines)) :
        /\ SuccessEngines(j, p[1]) # {}
        /\ p[2] # None => p[2] \in SuccessEngines(j, p[1])}

\* file_info is the plan entry of pair p
IsEntryOf(file_info, p) ==
    IF p[2] = None
    THEN file_info = PreCdr(p[1])
    ELSE /\ file_info.version = "post-cdr"
         /\ file_info.cdr_engine = p[2]
         /\ file_info.original_file = p[1]
         /\ file_info.file_path = <<"post-cdr", p[2], p[1]>>

\* C22: Phase 2 dispatches, for each file with at least one Phase-1 success,
\* one pre-CDR unit and one post-CDR unit per engine that succeeded on it,
\* each times the AV engines, and nothing else: a failed or error Phase-1
\* result yields no unit.
C22_Phase2Plan ==
    \A j \in JobIds :
        chords[j][2].made =>
            LET tasks == chords[j][2].tasks
            IN  /\ Len(tasks) = Len(AvEngines) * Cardinality(PlanPairs(j))
                /\ \A p \in PlanPairs(j), av \in Range(AvEngines) :
                    Cardinality({k \in DOMAIN tasks :
                        tasks[k].engine = av /\ IsEntryOf(tasks[k].file_info, p)}) = 1

\* Phase 2 is dispatched for a file on which one CDR engine did not succeed
C22_Witness ==
    \E j \in JobIds :
        /\ chords[j][2].made
        /\ Len(chords[j][2].tasks) = Len(AvEngines) * Len(CdrEngines)
        /\ \E k \in DOMAIN results[j][1] : results[j][1][k].status # "success"

(***************************************************************************)
(* Properties of the Phase-3 unit.                                         *)
(***************************************************************************)
\* C23: a Phase-3 attempt that holds a VM, in a run in which no adapter,
\* backend or pool operation has failed, stores a result of status success.
C23_HappyPathSucceeds ==
    \A w \in PoolWorkers :
        (At(w, "u3_store") /\ procs[w].loc.result.vm_name # NoName /\ faults = 0)
            => procs[w].loc.result.status = "success"


\* the post-CDR Phase-2 units of job j: in the chord header, queued or running
PostCdrUnits(j) ==
    {t \in Range(chords[j][2].tasks) \cup Range(queue)
           \cup {procs[w].task : w \in {x \in AllWorkers : procs[x].pc # "idle"}} :
        /\ t.name = "scan_single_file_av"
        /\ t.job_id = j
        /\ t.file_info.version = "post-cdr"}

\* C24: the sanitized artifact of every stored Phase-1 success result is
\* already in blob storage under post-cdr/<engine>/<original path>, and so is
\* the file of every post-CDR unit Phase 2 has dispatched.
C24_UploadBeforeResult ==
    \A j \in JobIds :
        /\ \A k \in DOMAIN results[j][1] :
            results[j][1][k].status = "success" =>
                /\ results[j][1][k].sanitized_blob_path
                    = <<"post-cdr", results[j][1][k].engine_name, results[j][1][k].file_path>>
                /\ results[j][1][k].sanitized_blob_path \in blobs
        /\ \A t \in PostCdrUnits(j) : t.file_info.file_path \in blobs

\* Phase 2 has dispatched a post-CDR unit for a stored success result
C24_Witness ==
    \E j \in JobIds :
        /\ \E k \in DOMAIN results[j][1] : results[j][1][k].status = "success"
        /\ PostCdrUnits(j) # {}


\* the names tracked in all_vms for label l
TrackedOf(l) == {v \in all_vms : vm_info[v].edr_solution = l}

\* the VMs of label l that a running _recycle_vm is replacing
RecyclingOf(l) ==
    {f.vm : f \in {g \in BagToSet(cleaners) :
                      g.pc \in {"recycle", "track"} /\ vm_info[g.vm].edr_solution = l}}

\* C25: once initialize_pools has run, every label tracks pool_size VMs less
\* the ones being recycled, and every tracked VM that is not being recycled
\* exists at the backend.
C25_TrackedPerLabel ==
    pool_ready =>
        \A l \in Labels :
            /\ Cardinality(TrackedOf(l) \ RecyclingOf(l))
                = config.pool_size - Cardinality(RecyclingOf(l))
            /\ (TrackedOf(l) \ RecyclingOf(l)) \subseteq backend


\* C26: shutdown_pools deletes every tracked VM, and once it has run no
\* acquire_vm returns a VM.
C26_NoAcquireAfterShutdown ==
    [][/\ ShutdownPools => (all_vms \cap backend' = {})
       /\ pools_shut => \A w \in PoolWorkers : ~EdrAcquire(w)]_vars


\* a Job Store operation on job j is running: a progress refresh, or a step
\* between the two halves of increment_failed, or a request of the API
StoreOpInProgress(j) ==
    \/ procs[ApiProc].pc # "idle"
    \/ \E p \in ProcIds :
        /\ procs[p].pc \in {"progress_read", "progress_write", "incr_processed"}
        /\ Jid(p) = j

\* C27: whenever no Job Store operation on a job is in progress, its
\* progress_percentage is 100 x processed_files / total_files (0 when
\* total_files is 0), however the workers' calls interleaved.
C27_ProgressMatchesCounters ==
    \A j \in JobIds :
        (Created(j) /\ ~StoreOpInProgress(j)) =>
            jobs[j].progress_percentage
                = IF jobs[j].total_files > 0
                  THEN Progress(jobs[j].processed_files, jobs[j].total_files)
                  ELSE ZeroProgress


\* the Phase-1 units of job j that have stored their result and are at step pc
UnitsAt(j, pc) == {w \in AllWorkers : procs[w].pc = pc /\ Jid(w) = j}

\* the increment_failed calls on job j whose hincrby has run: one per stored
\* error result, less the units about to make the call
FailedCalls(j) ==
    Cardinality({k \in DOMAIN results[j][1] : results[j][1][k].status = "error"})
        - Cardinality(UnitsAt(j, "incr_failed"))

\* the hincrby's of processed_files that have run on job j: one per stored
\* Phase-1 result, less the units that are still before it
ProcessedCalls(j) ==
    Len(results[j][1]) - Cardinality(UnitsAt(j, "incr_failed") \cup UnitsAt(j, "incr_processed"))

\* C28: processed_files counts every increment_processed and increment_failed
\* call made so far and failed_files every increment_failed call, whatever
\* the interleaving of the workers, and neither counter ever decreases.
C28_CountersAtomic ==
    /\ [](\A j \in JobIds :
            Created(j) => /\ jobs[j].processed_files = ProcessedCalls(j)
                          /\ jobs[j].failed_files = FailedCalls(j))
    /\ [][\A j \in JobIds :
            (Created(j) /\ Created(j)') =>
                /\ jobs'[j].processed_files >= jobs[j].processed_files
                /\ jobs'[j].failed_files >= jobs[j].failed_files]_vars

\* both workers are inside an increment of the same job, after an
\* increment_failed and at least two increments of processed_files
C28_Witness ==
    \E j \in JobIds :
        /\ Created(j)
        /\ jobs[j].failed_files = 1
        /\ jobs[j].processed_files >= 2
        /\ \A w \in ParWorkers :
            procs[w].pc \in {"progress_read", "progress_write"} /\ Jid(w) = j


\* a step of delete_job that changes the store
DeleteJobStep == (\E j \in StoreJobs : DeleteJobStart(j)) \/ DeleteJobPhase \/ DeleteJobLrem

C30_AllKeysExpire ==
    /\ [](\A j \in ttl.due :
            /\ ~JobFound(jobs[j])
            /\ \A n \in 1..3 : results[j][n] = <<>>)
    /\ [][\A j \in StoreJobs \ (ttl'.due \cup Deleting') :
            /\ JobFound(jobs[j]) => JobFound(jobs'[j])
            /\ \A n \in 1..3 : Len(results'[j][n]) >= Len(results[j][n])]_vars


\* C31: a completion callback that caught an error leaves its except block
\* by returning, never by raising, and with the job's status set to failed.
C31_CallbacksNeverThrow ==
    [][\A w \in Workers :
        (procs[w].pc = "cb_except" /\ procs'[w].pc # "cb_except") =>
            /\ procs'[w].pc # "cb_raised"
            /\ jobs'[procs[w].task.job_id].status = "failed"]_vars


\* the work of a Phase-n unit of job j has raised: the unit is in its except
\* block, about to store its result
UnitRaised(j, n) ==
    \E w \in Workers :
        /\ procs[w].pc = (IF n = 1 THEN "u1_store" ELSE "u2_store")
        /\ Jid(w) = j
        /\ procs[w].loc.status = "error"

\* phase n of job j holds an error result, and its completion callback has been
\* invoked with one result per header unit, the error result among them
JoinedWithError(j, n) ==
    /\ \E k \in DOMAIN results[j][n] : results[j][n][k].status = "error"
    /\ \E i \in CallsOf(j, n) :
        /\ Len(cb_calls[n][i].results) = Len(chords[j][n].tasks)
        /\ \E k \in DOMAIN cb_calls[n][i].results : cb_calls[n][i].results[k].status = "error"

\* C32: when the work of a Phase-1 or Phase-2 unit raises, the unit stores a
\* result of status error and returns it, every sibling unit runs, and the
\* phase's completion callback is invoked with all of their results.
C32_UnitErrorDoesNotAbortPhase ==
    \A j \in JobIds : \A n \in {1, 2} : UnitRaised(j, n) ~> JoinedWithError(j, n)

\* a phase with sibling units has joined although one of its units raised
C32_Witness ==
    \E n \in {1, 2} :
        /\ JoinedWithError("j1", n)
        /\ Len(chords["j1"][n].tasks) > 1


\* VM v sits exactly once in the queue q
QueuedOnce(q, v) == Cardinality({k \in DOMAIN q : q[k] = v}) = 1

\* C33: initialize_pools returns with every slot provisioned whose own
\* provisioning did not raise: all slots but the failed ones exist at the
\* backend, are tracked and sit available in their label's queue.
C33_InitFailureSparesSiblings ==
    [][InitializePools =>
        /\ pool_ready'
        /\ Cardinality(all_vms') =
              Cardinality(Labels) * config'.pool_size - (faults' - faults)
        /\ \A v \in all_vms' :
            /\ v \in backend'
            /\ vm_info'[v].status = "available"
            /\ QueuedOnce(pools'[vm_info'[v].edr_solution], v)]_vars

\* initialize_pools has returned with two slots per label of which one failed
C33_Witness ==
    /\ pool_ready
    /\ issued = {}
    /\ config.pool_size = 2
    /\ faults = 1
    /\ Cardinality(all_vms) = Cardinality(Labels) * 2 - 1


\* C34: a process_cdr_batch whose request named no file, by an absent value or
\* by an empty list, fans out over the files the container holds: its chord
\* has one unit per listed file and CDR engine and total_files is the size of
\* the listing.
C34_EmptyPathsUseListing ==
    [][\A w \in Workers :
        (/\ procs[w].pc = "cdr_chord"
         /\ procs'[w].pc # "cdr_chord"
         /\ procs[w].task.file_paths.paths = <<>>)
            => /\ chords'[Jid(w)][1].tasks = CdrTasks(Jid(w), procs[w].loc.container)
               /\ jobs[Jid(w)].total_files = Len(procs[w].loc.container)]_vars


\* the frames of _clean_and_return_vm threads, which release_vm starts
CleanFrames == {f \in BagToSet(cleaners) : f.caller = None}

\* the frame that frame f has become in the next state, at position pc
Moved(f, pc) == {g \in BagToSet(cleaners') : g.vm = f.vm /\ g.caller = f.caller /\ g.pc = pc}

InReleaseVm(w) == procs[w].pc \in {"u3_finally", "rel_wait"}

\* C36: every call of release_vm returns: a unit that has entered its finally
\* block leaves release_vm again, on the recycle path as on the others.
C36_ReleaseVmReturns ==
    \A w \in PoolWorkers : InReleaseVm(w) ~> ~InReleaseVm(w)


\* C37: no VM is in its label's queue more than once, whatever sequence of
\* acquire_vm and release_vm calls (a second release of the same VM included)
\* led to the state.
C37_NoVmTwiceInQueue ==
    \A l \in Labels :
        \A a, b \in DOMAIN pools[l] : pools[l][a] = pools[l][b] => a = b


\* C38: a Job Store operation other than create_job on a job without a record
\* leaves it without one: get_job still finds nothing and no result list of
\* the job grows.
C38_NoRecordStaysNoRecord ==
    [][\A j \in StoreJobs :
        (~JobFound(jobs[j]) /\ ~StoreCreateJob(j)) =>
            /\ ~JobFound(jobs'[j])
            /\ \A n \in 1..3 : Len(results'[j][n]) <= Len(results[j][n])]_vars


\* the names of the replacements that running _recycle_vm calls have
\* provisioned and not yet tracked
PendingNames(fs) == {f.new : f \in {g \in fs : g.pc = "track"}}

\* C39: the name _recycle_vm gives a replacement is the name of no tracked VM
\* and of no other replacement being made, also when VMs of one label are
\* recycled within the same second.
C39_ReplacementNameUnique ==
    [][\A f \in BagToSet(cleaners) :
        RecycleProvision(f) =>
            \A g \in Moved(f, "track") :
                /\ g.new \notin all_vms
                /\ g.new \notin PendingNames(BagToSet(cleaners))]_vars


\* C40: once every Phase-1 unit has returned, processed_files is the number
\* of Phase-1 results and failed_files the number of those with status failed
\* or error; and processed_files never exceeds the number of Phase-1 results.
C40_CountersMatchPhase1Results ==
    \A j \in JobIds :
        Created(j) =>
            /\ jobs[j].processed_files <= Len(results[j][1])
            /\ ChordComplete(chords[j][1]) =>
                /\ jobs[j].processed_files = Len(results[j][1])
                /\ jobs[j].failed_files = Count(results[j][1], Failed)

====
